---- MODULE Spec2Model ----
(***************************************************************************)
(* Model of stars_manager.py: the incremental fetch / analyze / merge      *)
(* pipeline over the persisted store results_all.json.                     *)
(*                                                                         *)
(* Conventions of the model                                                *)
(*   - starred_at timestamps are ISO-8601 strings of one format, compared  *)
(*     lexicographically by Python; they are modelled by their rank        *)
(*     1, 2, 3, ... in that order.  None and "" (both falsy) are 0.        *)
(*   - a missing/None string field is "" (the code always reads such       *)
(*     fields through `x or ""` or a truthiness test).                     *)
(*   - category names are ASCII stand-ins of the Chinese names of the      *)
(*     source, in the source's order.                                      *)
(*   - a Python dict is an insertion-ordered mapping: a sequence of rows   *)
(*     with pairwise different keys.                                       *)
(***************************************************************************)
EXTENDS Integers, Sequences, FiniteSets, TLC

VARIABLES
    store,          \* outputs/results_all.json as it is on disk
    parts,          \* the other *.json files of the output directory
    op,             \* how the last operation on the store (the last run) ended
    prev,           \* the store before the last operation (at the run's start)
    batch,          \* new_rows of the last merge_with_new_rows
    source,         \* the user's starred list as the API pages it
    pc,             \* where main is: "idle" (no run), "fetch", "analyze"
    args,           \* the run's arguments and environment
    processed_keys, \* main's processed_keys
    page,           \* fetch_starred_repos_sorted_asc: page
    results,        \* fetch_starred_repos_sorted_asc: results, then to_process
    analyzed_rows,  \* main's analyzed_rows
    analyzed,       \* how often each key has been handed to analyze_with_zhipu
                    \* by the runs up to the first that found the store unreadable
    intact,         \* results_all.json was readable at the start of every run so far
    call            \* a call of classify_category_by_keywords: arguments and return

mvars == <<store, parts, op, prev, batch>>
rvars == <<source, pc, args, processed_keys, page, results, analyzed_rows, analyzed>>
vars == <<store, parts, op, prev, batch, source, pc, args, processed_keys, page,
          results, analyzed_rows, analyzed, intact, call>>

-----------------------------------------------------------------------------
(* Bounds *)

MaxBatch == 2       \* longest batch handed to merge_with_new_rows
MaxNeed == 2        \* largest --batch-size
PerPage == 2        \* --per-page
MaxRules == 3       \* most categories of a rule set other than the built-in one

-----------------------------------------------------------------------------
(* The starred items the API can list: {starred_at, repo: {...}} *)

RawItem(full_name, html_url, description, topics, starred_at) ==
    [full_name |-> full_name, html_url |-> html_url,
     description |-> description, topics |-> topics,
     starred_at |-> starred_at]

ItemA == RawItem("p/Zed", "u/a", "", <<>>, 1)
ItemB == RawItem("o/Notes", "u/b", "", <<"todo">>, 2)
ItemC == RawItem("q/vt", "u/c", "vue-based task manager", <<>>, 2)
ItemD == RawItem("p/Zed", "u/a", "", <<>>, 3)   \* ItemA's repository starred again
ItemX == RawItem("", "u/x", "", <<>>, 2)        \* repo.full_name missing
ItemY == RawItem("q/m", "u/y", "", <<>>, 0)     \* starred_at missing

-----------------------------------------------------------------------------
(* Strings *)

RECURSIVE IndexOf(_, _, _)
\* str.find: the first index >= i at which w occurs in s, 0 when none
IndexOf(s, w, i) ==
    IF i + Len(w) - 1 > Len(s) THEN 0
    ELSE IF SubSeq(s, i, i + Len(w) - 1) = w THEN i
    ELSE IndexOf(s, w, i + 1)

\* Python's `w in s`: w occurs in s at some index
Contains(s, w) ==
    \E i \in 1..(Len(s) - Len(w) + 1) : SubSeq(s, i, i + Len(w) - 1) = w

\* full_name.split("/")[0] if "/" in full_name else ""
OwnerOf(full_name) ==
    IF Contains(full_name, "/")
    THEN SubSeq(full_name, 1, IndexOf(full_name, "/", 1) - 1)
    ELSE ""

-----------------------------------------------------------------------------
(* Categories configuration *)

DEFAULT_ALLOWED_CATEGORIES ==
    <<"WebApp", "MobileApp", "DesktopApp", "Database", "AI/ML", "DevTools",
      "SecurityTools", "Games", "DesignTools", "Productivity", "Education",
      "SocialNetwork", "DataAnalysis">>

Rule(cat, words) == [cat |-> cat, words |-> words]

\* a dict {category: [keyword, ...]} in insertion order
DEFAULT_CATEGORY_RULES ==
    << Rule("WebApp", <<"web", "http", "rest", "frontend", "backend", "website",
                        "spa", "vue", "react", "svelte", "nextjs", "nuxt">>),
       Rule("MobileApp", <<"android", "ios", "mobile", "apk", "react native",
                           "flutter", "cordova">>),
       Rule("DesktopApp", <<"desktop", "electron", "qt", "gtk", "win32", "macos",
                            "wxwidgets">>),
       Rule("Database", <<"database", "db", "sql", "nosql", "postgres", "mysql",
                          "mongodb", "redis", "cassandra", "sqlite">>),
       Rule("AI/ML", <<"machine learning", "ml", "ai", "deep learning",
                       "transformer", "llm", "pytorch", "tensorflow", "keras">>),
       Rule("DevTools", <<"dev", "developer", "sdk", "library", "framework",
                          "build", "compile", "cli", "lint", "ci", "testing",
                          "tool">>),
       Rule("SecurityTools", <<"security", "vuln", "pentest", "penetration",
                               "exploit", "auth", "encryption", "ssl", "xss",
                               "cve">>),
       Rule("Games", <<"game", "gaming", "unity", "unreal", "godot">>),
       Rule("DesignTools", <<"design", "ui", "ux", "figma", "sketch", "graphics",
                             "svg", "illustration">>),
       Rule("Productivity", <<"productivity", "todo", "note", "task", "calendar",
                              "automation", "workflow">>),
       Rule("Education", <<"education", "learn", "learning", "tutorial", "course",
                           "teaching", "docs", "examples">>),
       Rule("SocialNetwork", <<"social", "network", "chat", "messaging",
                               "community", "forum", "sns">>),
       Rule("DataAnalysis", <<"data analysis", "analytics", "bi", "pandas",
                              "numpy", "visualization", "chart", "plot">>) >>

\* str.lower on one character (the letters the model's texts use)
LowerChar(c) ==
    CASE c = "A" -> "a" [] c = "B" -> "b" [] c = "C" -> "c" [] c = "D" -> "d"
      [] c = "E" -> "e" [] c = "F" -> "f" [] c = "G" -> "g" [] c = "H" -> "h"
      [] c = "I" -> "i" [] c = "J" -> "j" [] c = "K" -> "k" [] c = "L" -> "l"
      [] c = "M" -> "m" [] c = "N" -> "n" [] c = "O" -> "o" [] c = "P" -> "p"
      [] c = "Q" -> "q" [] c = "R" -> "r" [] c = "S" -> "s" [] c = "T" -> "t"
      [] c = "U" -> "u" [] c = "V" -> "v" [] c = "W" -> "w" [] c = "X" -> "x"
      [] c = "Y" -> "y" [] c = "Z" -> "z" [] OTHER -> c

RECURSIVE Lower(_)
Lower(s) ==
    IF Len(s) = 0 THEN ""
    ELSE LowerChar(SubSeq(s, 1, 1)) \o Lower(SubSeq(s, 2, Len(s)))

RECURSIVE JoinWith(_, _)
\* sep.join(strs)
JoinWith(sep, strs) ==
    IF strs = <<>> THEN ""
    ELSE IF Len(strs) = 1 THEN strs[1]
    ELSE strs[1] \o sep \o JoinWith(sep, Tail(strs))

\* " ".join([full name, description, " ".join(topics)]).lower()
SearchText(repo) ==
    Lower(JoinWith(" ", <<repo.repo_full_name, repo.description,
                          JoinWith(" ", repo.topics)>>))

\* the strings w with `w in s`: the substrings of s, the empty one included
Substrings(s) == {SubSeq(s, i, j) : i \in 1..(Len(s) + 1), j \in 0..Len(s)}

\* for w in words: if w in text (subs being the substrings of text)
RuleHits(rule, subs) ==
    \E k \in 1..Len(rule.words) : rule.words[k] \in subs

RECURSIVE LastHit(_, _)
\* variant: the last category of the rule set with a keyword in the text
LastHit(category_rules, subs) ==
    IF category_rules = <<>> THEN <<>>
    ELSE IF LastHit(Tail(category_rules), subs) # <<>>
    THEN LastHit(Tail(category_rules), subs)
    ELSE IF RuleHits(Head(category_rules), subs) THEN <<Head(category_rules).cat>>
    ELSE <<>>

RECURSIVE FirstHit(_, _)
\* for cat, words in category_rules.items(): for w in words: if w in text: return cat
FirstHit(category_rules, subs) ==
    IF category_rules = <<>> THEN <<>>
    ELSE IF RuleHits(Head(category_rules), subs) THEN <<Head(category_rules).cat>>
    ELSE FirstHit(Tail(category_rules), subs)

(* classify_category_by_keywords: <<cat>> for the category returned, <<>>    *)
(* for None.                                                                  *)
classify_category_by_keywords(repo, category_rules) ==
    LET subs == Substrings(SearchText(repo)) IN FirstHit(category_rules, subs)

InList(x, list) == \E i \in 1..Len(list) : list[i] = x

normalize_category(candidate, repo, allowed_categories, category_rules, default_category) ==
    IF InList(candidate, allowed_categories) THEN candidate
    ELSE LET mapped == classify_category_by_keywords(repo, category_rules)
         IN  IF mapped # <<>> /\ mapped[1] # "" /\ InList(mapped[1], allowed_categories)
             THEN mapped[1]
             ELSE default_category

-----------------------------------------------------------------------------
(* Analysis adapter *)

Analysis(category, tags, summary) ==
    [category |-> category, tags |-> tags, summary |-> summary]

(* What the chat completion call does: it raises, or it returns `content`.   *)
(* The content is modelled by the cases parse_json_content tells apart:      *)
(*   form "none"     no content (None or "")                                 *)
(*   form "object"   the text of a JSON object, `fields`                     *)
(*   form "embedded" prose around the text of a JSON object                  *)
(*   form "array"    the text of a JSON value that is no object              *)
(*   form "garbage"  text holding no JSON                                    *)
(* fenced: the text is wrapped in a ``` block.  A field of the object that   *)
(* is absent or null is ""; tags is a JSON list, one string, or another      *)
(* JSON value.  An element of a list that is no string (a number, an         *)
(* object, ...) is written with a leading "#".                               *)
Content(fenced, form, fields) ==
    [fenced |-> fenced, form |-> form, fields |-> fields]

Reply(raises, content) == [raises |-> raises, content |-> content]

\* isinstance(x, str) for an element of a JSON list
IsStr(x) == Len(x) = 0 \/ SubSeq(x, 1, 1) # "#"

TagList(l) == [kind |-> "list", val |-> l]
TagStr(x) == [kind |-> "str", val |-> <<x>>]
TagOther == [kind |-> "other", val |-> <<>>]

NoFields == Analysis("", TagList(<<>>), "")

(* parse_json_content: the value returned.  is_dict is FALSE when json.loads  *)
(* gave a value that is no dict (the caller's parsed.get then raises); the    *)
(* empty dict {} has every field absent.  Stripping the ``` fence leaves the  *)
(* same cases.                                                                *)
parse_json_content(content) ==
    CASE content.form = "none" -> [is_dict |-> TRUE, fields |-> NoFields]
      [] content.form = "object" -> [is_dict |-> TRUE, fields |-> content.fields]
      [] content.form = "array" -> [is_dict |-> FALSE, fields |-> NoFields]
      [] content.form = "embedded" -> [is_dict |-> TRUE, fields |-> content.fields]
      [] OTHER -> [is_dict |-> TRUE, fields |-> NoFields]

base_result == Analysis("Uncategorized", <<>>, "")

analyze_with_zhipu(api_key, repo, reply) ==
    IF ~api_key THEN [base_result EXCEPT !.summary = "API_KEY missing"]
    ELSE IF reply.raises THEN [base_result EXCEPT !.summary = "call exception"]
    ELSE LET parsed == parse_json_content(reply.content)
         IN  IF ~parsed.is_dict
             THEN [base_result EXCEPT !.summary = "call exception"]
             ELSE Analysis(
                    IF parsed.fields.category = "" THEN base_result.category
                    ELSE parsed.fields.category,
                    IF parsed.fields.tags.kind = "other" THEN <<>>
                    ELSE parsed.fields.tags.val,
                    parsed.fields.summary)

(* datetime.now(timezone.utc).isoformat(): the time of the run; nothing in   *)
(* the program reads analyzed_at back                                        *)
now_iso == "now"

\* the row main builds: {**repo, category, tags, summary, analyzed_at}
AnalyzedRow(repo, category, analysis, analyzed_at) ==
    [repo_full_name |-> repo.repo_full_name, owner |-> repo.owner,
     html_url |-> repo.html_url, description |-> repo.description,
     topics |-> repo.topics, starred_at |-> repo.starred_at,
     category |-> category, tags |-> analysis.tags,
     summary |-> analysis.summary, analyzed_at |-> analyzed_at]

-----------------------------------------------------------------------------
(* Merge & dedupe *)

\* f"{row.get('repo_full_name')}|{row.get('starred_at')}"
unique_key(row) == row.repo_full_name \o "|" \o ToString(row.starred_at)

Keys(rows) == {unique_key(rows[i]) : i \in 1..Len(rows)}

\* variant: the row is appended whether or not its key is present
DictSetAppend(all_rows, row) == Append(all_rows, row)

\* variant: a key that is present keeps its row (dict.setdefault)
DictSetKeepFirst(all_rows, row) ==
    IF \E i \in 1..Len(all_rows) : unique_key(all_rows[i]) = unique_key(row)
    THEN all_rows
    ELSE Append(all_rows, row)

\* all_rows[unique_key(row)] = row on an insertion-ordered dict
DictSet(all_rows, row) ==
    IF \E i \in 1..Len(all_rows) : unique_key(all_rows[i]) = unique_key(row)
    THEN [i \in 1..Len(all_rows) |->
            IF unique_key(all_rows[i]) = unique_key(row) THEN row
            ELSE all_rows[i]]
    ELSE Append(all_rows, row)

RECURSIVE DictSetAll(_, _)
\* for row in rows: all_rows[unique_key(row)] = row
DictSetAll(all_rows, rows) ==
    IF rows = <<>> THEN all_rows
    ELSE DictSetAll(DictSet(all_rows, Head(rows)), Tail(rows))

\* key=lambda r: r.get("starred_at") or "": None and "" are both rank 0
SortKey(r) == r.starred_at

RECURSIVE InsertSortedBeforeTies(_, _)
\* variant: r placed before the elements of equal key (an unstable sort)
InsertSortedBeforeTies(sorted, r) ==
    IF sorted = <<>> THEN <<r>>
    ELSE IF SortKey(Head(sorted)) < SortKey(r)
         THEN <<Head(sorted)>> \o InsertSortedBeforeTies(Tail(sorted), r)
         ELSE <<r>> \o sorted

RECURSIVE InsertSorted(_, _)
\* r placed after every element whose key is <= its own (stable)
InsertSorted(sorted, r) ==
    IF sorted = <<>> THEN <<r>>
    ELSE IF SortKey(Head(sorted)) <= SortKey(r)
         THEN <<Head(sorted)>> \o InsertSorted(Tail(sorted), r)
         ELSE <<r>> \o sorted

\* variant: the rows are written in dict order
SortRowsSkipped(rows) == rows

RECURSIVE SortRows(_)
\* rows.sort(key=...): list.sort is stable
SortRows(rows) ==
    IF rows = <<>> THEN <<>>
    ELSE InsertSorted(SortRows(SubSeq(rows, 1, Len(rows) - 1)), rows[Len(rows)])

(* A JSON file: absent; or text json.load rejects; or a JSON array of row    *)
(* objects, which may hold one element that is no object (bad_at is its      *)
(* position in the array, 0 when there is none: rows[bad_at] is the row      *)
(* that follows it).                                                         *)
JsonFile(exists, parses, rows, bad_at) ==
    [exists |-> exists, parses |-> parses, rows |-> rows, bad_at |-> bad_at]

Absent == JsonFile(FALSE, FALSE, <<>>, 0)

(* A str holding a lone surrogate code point, as json.loads makes of an      *)
(* unpaired \ud83d escape; it is written here with the escape.  The utf-8    *)
(* codec cannot encode it.                                                   *)
HasLoneSurrogate(s) == Contains(s, "\\ud83d")

(* whether json.dump(rows, f, ensure_ascii=False) into the utf-8 file raises *)
(* UnicodeEncodeError: a summary or a tag holds a lone surrogate             *)
WriteJsonRaises(rows) ==
    \E i \in 1..Len(rows) :
        \/ HasLoneSurrogate(rows[i].summary)
        \/ \E k \in 1..Len(rows[i].tags) : HasLoneSurrogate(rows[i].tags[k])

(* open(path, "w") truncates the file, then json.dump(rows, f, ...) writes   *)
(* the array of the row objects; when it raises part-way the file is left    *)
(* with the text written so far, which json.load rejects.                    *)
write_json(rows) ==
    IF WriteJsonRaises(rows) THEN JsonFile(TRUE, FALSE, <<>>, 0)
    ELSE JsonFile(TRUE, TRUE, rows, 0)

\* whether `for row in json.load(f): ... unique_key(row)` raises
LoadRaises(file) == file.exists /\ (~file.parses \/ file.bad_at # 0)

(* if os.path.exists(path): try: for row in json.load(f):                    *)
(*     all_rows[unique_key(row)] = row   except Exception: pass              *)
(* json.load raising leaves all_rows as it was; row.get raising on an        *)
(* element that is no object ends the loop there, after the rows before it.  *)
LoadInto(all_rows, file) ==
    IF ~file.exists \/ ~file.parses THEN all_rows
    ELSE IF file.bad_at = 0 THEN DictSetAll(all_rows, file.rows)
    ELSE DictSetAll(all_rows, SubSeq(file.rows, 1, file.bad_at - 1))

(* write_csv, and write_markdown after it: ";".join(tags) and               *)
(* ";".join(topics) raise TypeError on an element that is no string.        *)
WriteCsvRaises(rows) ==
    \E i \in 1..Len(rows) :
        \/ \E k \in 1..Len(rows[i].tags) : ~IsStr(rows[i].tags[k])
        \/ \E k \in 1..Len(rows[i].topics) : ~IsStr(rows[i].topics[k])

\* how an operation that has rewritten results_all.json ends
Persisted(done, file) ==
    IF ~file.parses THEN "crash_json"
    ELSE IF WriteCsvRaises(file.rows) THEN "crash_csv" ELSE done

\* merge_with_new_rows: what it leaves in results_all.json
merge_with_new_rows(file, new_rows) ==
    write_json(SortRows(DictSetAll(LoadInto(<<>>, file), new_rows)))

RECURSIVE LoadAllInto(_, _)
LoadAllInto(all_rows, files) ==
    IF files = <<>> THEN all_rows
    ELSE LoadAllInto(LoadInto(all_rows, Head(files)), Tail(files))

\* merge_json_files: `listed` is the other *.json files in os.listdir order
merge_json_files(file, listed) ==
    write_json(SortRows(LoadAllInto(LoadInto(<<>>, file), listed)))

-----------------------------------------------------------------------------
(* GitHub stars fetcher *)

(* the starred list in ascending order of starring; the user has starred a   *)
(* prefix of it (ItemC is a star the user has removed since)                 *)
Starred == <<ItemA, ItemB, ItemX, ItemY, ItemD>>

Sources == {SubSeq(Starred, 1, n) : n \in 0..Len(Starred)}

Min(a, b) == IF a <= b THEN a ELSE b

\* resp.json() of GET /user/starred?per_page=..&page=..&sort=created&direction=asc
PageOf(src, p, per_page) ==
    SubSeq(src, (p - 1) * per_page + 1, Min(p * per_page, Len(src)))

\* the dict fetch_starred_repos_sorted_asc appends for an item
RepoOf(item) ==
    [repo_full_name |-> item.full_name, owner |-> OwnerOf(item.full_name),
     html_url |-> item.html_url, description |-> item.description,
     topics |-> item.topics, starred_at |-> item.starred_at]

\* unique_key = f"{full_name}|{starred_at}"
FetchKey(item) == item.full_name \o "|" \o ToString(item.starred_at)

RECURSIVE CollectPageNoBreak(_, _, _, _)
\* variant: the page is walked to its end once results is full
CollectPageNoBreak(res, items, needed_unprocessed, processed) ==
    IF items = <<>> THEN res
    ELSE LET item == Head(items)
         IN  IF item.full_name = "" \/ item.starred_at = 0
             THEN CollectPageNoBreak(res, Tail(items), needed_unprocessed, processed)
             ELSE IF FetchKey(item) \in processed
             THEN CollectPageNoBreak(res, Tail(items), needed_unprocessed, processed)
             ELSE CollectPageNoBreak(Append(res, RepoOf(item)), Tail(items),
                                     needed_unprocessed, processed)

RECURSIVE CollectPage(_, _, _, _)
(* for item in batch: skip items lacking full_name or starred_at and items   *)
(* whose key is processed; append the others; break once results holds      *)
(* needed_unprocessed of them.                                               *)
CollectPage(res, items, needed_unprocessed, processed) ==
    IF items = <<>> THEN res
    ELSE LET item == Head(items)
         IN  IF item.full_name = "" \/ item.starred_at = 0
             THEN CollectPage(res, Tail(items), needed_unprocessed, processed)
             ELSE IF FetchKey(item) \in processed
             THEN CollectPage(res, Tail(items), needed_unprocessed, processed)
             ELSE IF Len(res) + 1 >= needed_unprocessed
             THEN Append(res, RepoOf(item))
             ELSE CollectPage(Append(res, RepoOf(item)), Tail(items),
                              needed_unprocessed, processed)

(* One turn of `while len(results) < needed_unprocessed` whose request is    *)
(* answered 200: [results, page, done]; done when the page was empty (break) *)
(* or the loop condition fails afterwards.                                   *)
FetchTurn(src, p, res, needed_unprocessed, processed) ==
    LET items == PageOf(src, p, PerPage)
        got == CollectPage(res, items, needed_unprocessed, processed)
    IN  IF items = <<>> THEN [results |-> res, page |-> p, done |-> TRUE]
        ELSE [results |-> got, page |-> p + 1,
              done |-> ~(Len(got) < needed_unprocessed)]

-----------------------------------------------------------------------------
(* Main batch execution *)

\* the categories file of the model's runs
CustomCategories == <<"Tools", "Productivity">>

(* load_categories: the JSON array of the file when one is given (the model's *)
(* file is CustomCategories), else the built-in list.                         *)
load_categories(file_path) ==
    IF file_path = "" THEN DEFAULT_ALLOWED_CATEGORIES ELSE CustomCategories

\* load_category_rules without a rules file
load_category_rules == DEFAULT_CATEGORY_RULES

\* --default-category: os.environ.get("DEFAULT_CATEGORY", <DevTools>)
DEFAULT_CATEGORY == "DevTools"

\* args and the environment: API_KEY set, --batch-size, --categories-file
Args(api_key, batch_size, categories_file) ==
    [api_key |-> api_key, batch_size |-> batch_size,
     categories_file |-> categories_file, default_category |-> DEFAULT_CATEGORY]

(* the runs of the model: with and without API_KEY on the built-in          *)
(* categories, and without API_KEY on a categories file                     *)
ArgsSet ==
    { Args(k, n, "") : k \in BOOLEAN, n \in 0..MaxNeed }
      \cup { Args(FALSE, n, "categories.json") : n \in 0..MaxNeed }

NoArgs == Args(FALSE, 0, "")

(* how the model call can go: it raises, answers well, answers unparsably,   *)
(* answers with a JSON object whose tags are numbers, answers with a JSON    *)
(* object whose summary ends in an unpaired surrogate escape                 *)
Replies ==
    { Reply(TRUE, Content(FALSE, "none", NoFields)),
      Reply(FALSE, Content(TRUE, "embedded", Analysis("Games", TagStr("t"), "s2"))),
      Reply(FALSE, Content(FALSE, "garbage", NoFields)),
      Reply(FALSE, Content(FALSE, "object", Analysis("WebApp", TagList(<<"#1">>), ""))),
      Reply(FALSE, Content(FALSE, "object", Analysis("Games", TagList(<<>>), "s\\ud83d"))) }

\* the orders in which os.listdir may list the part files
Listings(files) ==
    { l \in [1..Len(files) -> 1..Len(files)] :
        \A i, j \in 1..Len(files) : i # j => l[i] # l[j] }

Listed(files, l) == [i \in 1..Len(files) |-> files[l[i]]]

(* main after the fetch returned to_process.  Nothing to process: the store  *)
(* is kept when results_all.json exists, else merge_all_formats merges the   *)
(* part files; the run is over.  Otherwise the items are analyzed in turn.   *)
AfterFetch(to_process, a) ==
    /\ results' = to_process
    /\ IF to_process = <<>>
       THEN /\ pc' = "idle" /\ args' = NoArgs
            /\ IF store.exists
               THEN store' = store /\ op' = "nothing"
               ELSE \E l \in Listings(parts) :
                      LET merged == merge_json_files(store, Listed(parts, l))
                      IN  store' = merged /\ op' = Persisted("merge_files", merged)
       ELSE pc' = "analyze" /\ args' = a /\ store' = store /\ op' = "fetched"

\* GH_TOKEN is not set: sys.exit(1) before any work
MissingToken ==
    /\ pc = "idle"
    /\ prev' = store
    /\ op' = "no_token"
    /\ processed_keys' = {} /\ page' = 1 /\ results' = <<>> /\ analyzed_rows' = <<>>
    /\ UNCHANGED <<intact, call, store, parts, batch, source, pc, args, analyzed>>

\* variant: rows left by a failed model call are not counted as processed
ProcessedKeysRetryFailed(file) ==
    LET all_rows == LoadInto(<<>>, file)
    IN  {unique_key(all_rows[i]) :
           i \in {j \in 1..Len(all_rows) : all_rows[j].summary # "call exception"}}

\* main's processed_keys: the keys of the rows read from results_all.json
ProcessedKeys(file) == Keys(LoadInto(<<>>, file))

(* main up to the first page request: the arguments, processed_keys read     *)
(* from results_all.json, and the fetch's first test of its loop condition.  *)
StartRun ==
    /\ pc = "idle"
    /\ \E a \in ArgsSet :
         IF 0 < a.batch_size
         THEN /\ pc' = "fetch" /\ args' = a /\ results' = <<>>
              /\ store' = store /\ op' = "fetching"
         ELSE AfterFetch(<<>>, a)
    /\ prev' = store
    /\ processed_keys' = ProcessedKeys(store)
    /\ page' = 1
    /\ analyzed_rows' = <<>>
    /\ intact' = (intact /\ ~LoadRaises(store))
    /\ UNCHANGED <<call, parts, batch, source, analyzed>>

\* one page request answered 200, and the loop condition after it
FetchPage ==
    /\ pc = "fetch"
    /\ LET t == FetchTurn(source, page, results, args.batch_size, processed_keys)
       IN  /\ page' = t.page
           /\ IF t.done THEN AfterFetch(t.results, args)
              ELSE results' = t.results /\ UNCHANGED <<intact, call, store, op, pc, args>>
    /\ UNCHANGED <<intact, call, parts, prev, batch, source, processed_keys, analyzed_rows,
                   analyzed>>

\* variant: the error ends the paging and main goes on with what was fetched
FetchErrorSwallowed ==
    /\ pc = "fetch"
    /\ pc' = IF results = <<>> THEN "idle" ELSE "analyze"
    /\ op' = "fetch_error"
    /\ UNCHANGED <<intact, call, store, parts, prev, batch, source, args, processed_keys, page,
                   results, analyzed_rows, analyzed>>

\* one page request answered with another status: RuntimeError ends main
FetchError ==
    /\ pc = "fetch"
    /\ pc' = "idle"
    /\ op' = "fetch_error"
    /\ args' = NoArgs
    /\ UNCHANGED <<intact, call, store, parts, prev, batch, source, processed_keys, page,
                   results, analyzed_rows, analyzed>>

\* the row main appends for a repo of to_process when the model call goes as `reply`
RowFor(repo, reply, a) ==
    LET analysis == analyze_with_zhipu(a.api_key, repo, reply)
    IN  AnalyzedRow(repo,
                    normalize_category(analysis.category, repo,
                                       load_categories(a.categories_file),
                                       load_category_rules, a.default_category),
                    analysis, now_iso)

(* one turn of main's loop over to_process when the model call goes as       *)
(* `reply`; after the last item the batch is merged into results_all.json    *)
(* and the run is over.                                                      *)
AnalyzeTurn(reply) ==
    LET repo == results[Len(analyzed_rows) + 1]
        rows == Append(analyzed_rows, RowFor(repo, reply, args))
    IN  /\ analyzed_rows' = rows
        /\ analyzed' = IF intact THEN [analyzed EXCEPT ![unique_key(repo)] = @ + 1]
                        ELSE analyzed
        /\ IF Len(rows) = Len(results)
           THEN /\ store' = merge_with_new_rows(store, rows)
                /\ batch' = rows
                /\ op' = Persisted("merge", merge_with_new_rows(store, rows))
                /\ pc' = "idle"
                /\ args' = NoArgs
           ELSE UNCHANGED <<intact, call, store, batch, op, pc, args>>
        /\ UNCHANGED <<intact, call, parts, prev, source, processed_keys, page, results>>

\* main's loop over to_process, one item at a time, and the merge after it
Analyze ==
    /\ pc = "analyze"
    /\ \E reply \in Replies : AnalyzeTurn(reply)

\* no call of classify_category_by_keywords on its own
NoCall == [repo |-> RepoOf(ItemA), category_rules |-> <<>>, pc |-> "none", ret |-> <<>>]

StarredKeys == {FetchKey(Starred[i]) : i \in 1..Len(Starred)}

\* rows written by an earlier layout of the output directory (part files)
LegacyRow(item, category) ==
    AnalyzedRow(RepoOf(item), category, Analysis(category, <<>>, "legacy"), "then")

PartFiles ==
    { <<>>,
      << write_json(<<LegacyRow(ItemC, "Games"), LegacyRow(ItemA, "WebApp")>>) >>,
      << write_json(<<LegacyRow(ItemD, "Games"), LegacyRow(ItemC, "Games")>>),
         JsonFile(TRUE, TRUE, <<LegacyRow(ItemC, "WebApp"), LegacyRow(ItemB, "Games")>>, 2),
         JsonFile(TRUE, FALSE, <<>>, 0) >> }

\* the starred lists and output directories a first run can find
Worlds ==
    {<<src, <<>>>> : src \in Sources}
      \cup {<<src, files>> : src \in {<<>>, <<ItemA, ItemB>>}, files \in PartFiles}

RunLocalsInit ==
    /\ pc = "idle"
    /\ args = NoArgs
    /\ processed_keys = {}
    /\ page = 1
    /\ results = <<>>
    /\ analyzed_rows = <<>>
    /\ analyzed = [k \in StarredKeys |-> 0]
    /\ intact = TRUE
    /\ call = NoCall

Init ==
    /\ store = Absent
    /\ op = "init"
    /\ prev = Absent
    /\ batch = <<>>
    /\ \E w \in Worlds : source = w[1] /\ parts = w[2]
    /\ RunLocalsInit

Next == MissingToken \/ StartRun \/ FetchPage \/ FetchError \/ Analyze

Spec == Init /\ [][Next]_vars

-----------------------------------------------------------------------------
(* fetch_starred_repos_sorted_asc called on its own, for any processed_keys *)

\* the keys a store can hold: of the starred items and of the removed star
KnownKeys == {FetchKey(i) : i \in {ItemA, ItemB, ItemC, ItemD}}

InitFetch ==
    /\ store = Absent /\ parts = <<>> /\ op = "init" /\ prev = Absent
    /\ batch = <<>> /\ analyzed_rows = <<>>
    /\ analyzed = [k \in StarredKeys |-> 0]
    /\ intact = TRUE
    /\ call = NoCall
    /\ source \in Sources
    /\ \E n \in 0..MaxNeed : args = Args(FALSE, n, "")
    /\ processed_keys \in SUBSET KnownKeys
    /\ pc = "call"
    /\ page = 1
    /\ results = <<>>

\* the call, up to the first test of the loop condition
FetchCall ==
    /\ pc = "call"
    /\ pc' = IF 0 < args.batch_size THEN "fetch" ELSE "returned"
    /\ UNCHANGED <<intact, call, store, parts, op, prev, batch, source, args, processed_keys,
                   page, results, analyzed_rows, analyzed>>

\* one page request answered 200
FetchTurnOk ==
    /\ pc = "fetch"
    /\ LET t == FetchTurn(source, page, results, args.batch_size, processed_keys)
       IN  /\ page' = t.page
           /\ results' = t.results
           /\ pc' = IF t.done THEN "returned" ELSE "fetch"
    /\ UNCHANGED <<intact, call, store, parts, op, prev, batch, source, args, processed_keys,
                   analyzed_rows, analyzed>>

\* one page request answered with another status
FetchTurnError ==
    /\ pc = "fetch"
    /\ pc' = "raised"
    /\ UNCHANGED <<intact, call, store, parts, op, prev, batch, source, args, processed_keys,
                   page, results, analyzed_rows, analyzed>>

NextFetch == FetchCall \/ FetchTurnOk \/ FetchTurnError

SpecFetch == InitFetch /\ [][NextFetch]_vars

-----------------------------------------------------------------------------
(* merge_with_new_rows and merge_json_files applied to any batch, and the    *)
(* store file damaged from outside between two operations                    *)

\* rows as main builds them: two analyses of ItemA, one of ItemB
RowPool ==
    { RowFor(RepoOf(ItemA), Reply(TRUE, Content(FALSE, "none", NoFields)),
             Args(TRUE, 1, "")),
      RowFor(RepoOf(ItemA),
             Reply(FALSE, Content(FALSE, "object",
                                  Analysis("Games", TagList(<<"x", "y">>), "s1"))),
             Args(TRUE, 1, "")),
      RowFor(RepoOf(ItemB), Reply(TRUE, Content(FALSE, "none", NoFields)),
             Args(FALSE, 1, "")) }

Batches == UNION {[1..n -> RowPool] : n \in 0..MaxBatch}

InitMerge ==
    /\ store = Absent
    /\ parts \in {<<>>, CHOOSE f \in PartFiles : Len(f) = 3}
    /\ op = "init"
    /\ prev = Absent
    /\ batch = <<>>
    /\ source = <<>>
    /\ RunLocalsInit

MergeNewRows ==
    /\ \E new_rows \in Batches :
         /\ store' = merge_with_new_rows(store, new_rows)
         /\ batch' = new_rows
         /\ op' = Persisted("merge", merge_with_new_rows(store, new_rows))
    /\ prev' = store
    /\ UNCHANGED <<intact, call, parts, source, pc, args, processed_keys, page, results,
                   analyzed_rows, analyzed>>

MergeAllFormats ==
    /\ \E l \in Listings(parts) :
         LET merged == merge_json_files(store, Listed(parts, l))
         IN  store' = merged /\ op' = Persisted("merge_files", merged)
    /\ prev' = store
    /\ UNCHANGED <<intact, call, parts, batch, source, pc, args, processed_keys, page, results,
                   analyzed_rows, analyzed>>

(* results_all.json is truncated or edited: json.load rejects it, or one     *)
(* element of its array is no object.                                        *)
Damage ==
    /\ store.exists /\ ~LoadRaises(store)
    /\ \/ store' = JsonFile(TRUE, FALSE, store.rows, 0)
       \/ \E i \in 1..(Len(store.rows) + 1) :
            store' = JsonFile(TRUE, TRUE, store.rows, i)
    /\ prev' = store
    /\ op' = "damage"
    /\ UNCHANGED <<intact, call, parts, batch, source, pc, args, processed_keys, page, results,
                   analyzed_rows, analyzed>>

NextMerge == MergeNewRows \/ MergeAllFormats \/ Damage

SpecMerge == InitMerge /\ [][NextMerge]_vars

-----------------------------------------------------------------------------
(* classify_category_by_keywords called on its own, for any repo and rules  *)

\* repos as the fetcher builds them; the last has capitals in every field
ClassifyRepos ==
    { RepoOf(ItemA), RepoOf(ItemB), RepoOf(ItemC), RepoOf(ItemX),
      RepoOf(RawItem("x/Todo-CLI", "u/t", "A Vue TASK app", <<"Notes">>, 4)) }

(* the categories of the rule sets a caller passes: keywords shared between *)
(* categories, a keyword with a capital, the empty keyword                  *)
RulePool ==
    { Rule("Tools", <<"task", "cli">>),
      Rule("Productivity", <<"todo", "note", "task">>),
      Rule("WebApp", <<"Vue", "app">>),
      Rule("Education", <<"docs", "">>) }

\* the dicts over RulePool in every insertion order, and the built-in rules
RuleSets ==
    { rs \in UNION {[1..n -> RulePool] : n \in 0..MaxRules} :
        \A i, j \in 1..Len(rs) : i # j => rs[i].cat # rs[j].cat }
      \cup {DEFAULT_CATEGORY_RULES}

InitClassify ==
    /\ store = Absent /\ parts = <<>> /\ op = "init" /\ prev = Absent
    /\ batch = <<>> /\ source = <<>>
    /\ pc = "idle" /\ args = NoArgs /\ processed_keys = {} /\ page = 1
    /\ results = <<>> /\ analyzed_rows = <<>>
    /\ analyzed = [k \in StarredKeys |-> 0]
    /\ intact = TRUE
    /\ \E repo \in ClassifyRepos, rs \in RuleSets :
         call = [repo |-> repo, category_rules |-> rs, pc |-> "call", ret |-> <<>>]

\* the call returns
Classify ==
    /\ call.pc = "call"
    /\ call' = [call EXCEPT !.pc = "returned",
                  !.ret = classify_category_by_keywords(call.repo, call.category_rules)]
    /\ UNCHANGED <<store, parts, op, prev, batch, source, pc, args, processed_keys,
                   page, results, analyzed_rows, analyzed, intact>>

NextClassify == Classify

SpecClassify == InitClassify /\ [][NextClassify]_vars

-----------------------------------------------------------------------------
(* Properties *)

PersistedNow == op \in {"merge", "merge_files"}

StoreKeys(file) == Keys(file.rows)

\* the last row of rows that has key k
LastWithKey(rows, k) ==
    rows[CHOOSE i \in 1..Len(rows) :
           /\ unique_key(rows[i]) = k
           /\ \A j \in (i + 1)..Len(rows) : unique_key(rows[j]) # k]

(* C1: merging the same batch a second time leaves results_all.json exactly  *)
(* as the first merge left it (same records, same order), and the store      *)
(* holds no row twice.                                                       *)
IdempotentRerun ==
    op = "merge" =>
        /\ merge_with_new_rows(store, batch) = store
        /\ \A i, j \in 1..Len(store.rows) : i # j => store.rows[i] # store.rows[j]

\* a merge of a batch that repeats a stored key, into a store with a tie on starred_at
IdempotentRerunWitness ==
    /\ op = "merge" /\ Len(batch) = MaxBatch
    /\ ~LoadRaises(prev)
    /\ StoreKeys(prev) \cap Keys(batch) # {}
    /\ \E i, j \in 1..Len(store.rows) :
         i # j /\ store.rows[i].starred_at = store.rows[j].starred_at

(* C2: after every persist no two records of results_all.json have the same *)
(* repo_full_name and the same starred_at.                                   *)
KeyUniqueness ==
    PersistedNow =>
        \A i, j \in 1..Len(store.rows) :
            i # j => ~(/\ store.rows[i].repo_full_name = store.rows[j].repo_full_name
                       /\ store.rows[i].starred_at = store.rows[j].starred_at)

\* a batch holding one key twice, the key being in the store already
KeyUniquenessWitness ==
    /\ op = "merge" /\ Len(batch) >= 2
    /\ unique_key(batch[1]) = unique_key(batch[2])
    /\ batch[1] # batch[2]
    /\ unique_key(batch[1]) \in StoreKeys(prev)
    /\ ~LoadRaises(prev)

(* C3: after every persist (merge_with_new_rows or merge_json_files) the    *)
(* records of results_all.json are in non-decreasing order of starred_at.   *)
SortInvariant ==
    PersistedNow =>
        \A i, j \in 1..Len(store.rows) :
            i < j => store.rows[i].starred_at <= store.rows[j].starred_at

\* new rows merged in descending order into a store that holds later rows
SortInvariantWitness ==
    /\ op = "merge" /\ Len(batch) >= 2
    /\ batch[1].starred_at > batch[2].starred_at
    /\ Keys(batch) \cap StoreKeys(prev) = {}
    /\ ~LoadRaises(prev)
    /\ \E i \in 1..Len(prev.rows) : prev.rows[i].starred_at > batch[1].starred_at

(* C4: every row a run has built carries a category of the run's allowed    *)
(* categories.                                                               *)
FallbackValidity ==
    pc = "analyze" =>
        \A i \in 1..Len(analyzed_rows) :
            InList(analyzed_rows[i].category, load_categories(args.categories_file))

(* C5: fetch_starred_repos_sorted_asc returns at most needed_unprocessed    *)
(* items, none of them with a key of processed_keys.                        *)
FetchBoundary ==
    pc = "returned" =>
        /\ Len(results) <= args.batch_size
        /\ \A i \in 1..Len(results) : unique_key(results[i]) \notin processed_keys

(* a return with results full while the list holds another unprocessed      *)
(* item, one of its items having been skipped as processed                  *)
FetchBoundaryWitness ==
    /\ pc = "returned"
    /\ 0 < args.batch_size /\ Len(results) = args.batch_size
    /\ \E i \in 1..Len(source) : FetchKey(source[i]) \in processed_keys
    /\ \E i \in 1..Len(source) :
         /\ source[i].full_name # "" /\ source[i].starred_at # 0
         /\ FetchKey(source[i]) \notin processed_keys
         /\ FetchKey(source[i]) \notin Keys(results)

(* C6: after a merge into a readable store, every key of the batch is       *)
(* stored with exactly the last row the batch has for it, the rows of the   *)
(* other keys are those of the store before, and the store holds one record *)
(* per key.                                                                  *)
UpsertFullReplace ==
    (op = "merge" /\ ~LoadRaises(prev)) =>
        /\ \A k \in Keys(batch) :
             \E i \in 1..Len(store.rows) : store.rows[i] = LastWithKey(batch, k)
        /\ \A i \in 1..Len(prev.rows) :
             unique_key(prev.rows[i]) \notin Keys(batch) =>
                 \E j \in 1..Len(store.rows) : store.rows[j] = prev.rows[i]
        /\ Len(store.rows) = Cardinality(StoreKeys(prev) \cup Keys(batch))

(* a batch whose two rows have one key and differ, the key being stored     *)
(* with another content than the batch's last row, beside another record    *)
UpsertFullReplaceWitness ==
    /\ op = "merge" /\ ~LoadRaises(prev) /\ Len(batch) >= 2
    /\ unique_key(batch[1]) = unique_key(batch[2])
    /\ batch[1].tags # batch[2].tags
    /\ \E i \in 1..Len(prev.rows) :
         /\ unique_key(prev.rows[i]) = unique_key(batch[1])
         /\ prev.rows[i] # batch[2]
    /\ Len(prev.rows) >= 2
    /\ Len(store.rows) = Len(prev.rows)

(* C7: a run one of whose page requests is refused is over without a row    *)
(* analyzed, and results_all.json is as it was when the run began.          *)
FatalFetchKeepsStore ==
    op = "fetch_error" =>
        /\ pc = "idle"
        /\ analyzed_rows = <<>>
        /\ store = prev

\* the request refused on a later page, after items were collected
FatalFetchKeepsStoreWitness ==
    /\ op = "fetch_error"
    /\ results # <<>> /\ page > 1
    /\ prev.exists /\ prev.rows # <<>>

(* C8: a run whose fetch returned items and was not refused a page runs to  *)
(* its end, the merge done, with one row per fetched item in fetch order,   *)
(* and every fetched key is in results_all.json.                            *)
AnalysisNeverFatal ==
    (pc = "idle" /\ results # <<>> /\ op # "fetch_error") =>
        /\ op = "merge"
        /\ Len(batch) = Len(results)
        /\ \A i \in 1..Len(results) :
             /\ unique_key(batch[i]) = unique_key(results[i])
             /\ unique_key(results[i]) \in StoreKeys(store)

(* C9: when reading results_all.json raises, the merge result is the batch  *)
(* alone, as if there had been no store.                                    *)
UnreadableStoreIsEmpty ==
    (op = "merge" /\ LoadRaises(prev)) =>
        store = merge_with_new_rows(Absent, batch)

(* C10: over the runs that found results_all.json readable at their start,  *)
(* and all runs before them too, no key is handed to the model more than    *)
(* once, and no item a run fetches has a key results_all.json held when the *)
(* run began.                                                                *)
AtMostOnceAnalysis ==
    /\ \A k \in StarredKeys : analyzed[k] <= 1
    /\ pc \in {"fetch", "analyze"} =>
         \A i \in 1..Len(results) : unique_key(results[i]) \notin StoreKeys(prev)

(* a run analyzing a new item while the store holds, since an earlier run,  *)
(* the fallback record of a failed call on a key the list still shows       *)
AtMostOnceAnalysisWitness ==
    /\ pc = "analyze" /\ analyzed_rows # <<>>
    /\ \E i \in 1..Len(prev.rows) :
         /\ prev.rows[i].summary = "call exception"
         /\ \E n \in 1..Len(source) : FetchKey(source[n]) = unique_key(prev.rows[i])
         /\ analyzed[unique_key(prev.rows[i])] = 1

(* C11: when a run that began with a readable results_all.json is over,     *)
(* however it ended (batch merged, nothing to process, fetch refused, model *)
(* calls failed), every key results_all.json held at the run's start is     *)
(* still a key of results_all.json.                                         *)
NoLostRecords ==
    (pc = "idle" /\ ~LoadRaises(prev)) =>
        ProcessedKeys(prev) \subseteq ProcessedKeys(store)

\* the keywords of category i of the rule set that occur in the text
HitWords(rs, i, text) ==
    {k \in 1..Len(rs[i].words) : Contains(text, rs[i].words[k])}

(* C12: classify_category_by_keywords returns the first category, in the    *)
(* rule set's order, one of whose keywords is a substring of the lowercased *)
(* text (full name, description and topics joined by spaces), and None when *)
(* no category has such a keyword.                                          *)
FirstRuleFirstMatch ==
    call.pc = "returned" =>
        LET rs == call.category_rules
            text == SearchText(call.repo)
            hit == {i \in 1..Len(rs) : HitWords(rs, i, text) # {}}
        IN  IF hit = {} THEN call.ret = <<>>
            ELSE \E i \in hit : /\ \A j \in hit : i <= j
                                /\ call.ret = <<rs[i].cat>>

(* a return of a category that is followed, in the rule set, by a category  *)
(* more of whose keywords occur in the text                                 *)
FirstRuleFirstMatchWitness ==
    /\ call.pc = "returned"
    /\ LET rs == call.category_rules
           text == SearchText(call.repo)
       IN  \E i, j \in 1..Len(rs) :
              /\ i < j
              /\ call.ret = <<rs[i].cat>>
              /\ Cardinality(HitWords(rs, j, text)) > Cardinality(HitWords(rs, i, text))

\* every event of the starred list has its full_name and its starred_at
ValidSource ==
    \A i \in 1..Len(source) : source[i].full_name # "" /\ source[i].starred_at # 0

SourceKeys == {FetchKey(source[i]) : i \in 1..Len(source)}

(* C13: a run with --batch-size >= 1 over a list of valid events and a      *)
(* readable results_all.json, none of whose page requests is refused, ends  *)
(* with a key in results_all.json that was not there when some key of the   *)
(* list was lacking; and when results_all.json held every key of the list,  *)
(* its fetch stops at the empty page, there is nothing to process and       *)
(* results_all.json stays as it was.                                        *)
IncrementalProgress ==
    [][ ( /\ pc \in {"fetch", "analyze"} /\ pc' = "idle" /\ op' # "fetch_error"
          /\ ValidSource /\ ~LoadRaises(prev) )
        => IF SourceKeys \subseteq ProcessedKeys(prev)
           THEN prev.exists =>
                  /\ op' = "nothing" /\ store' = prev
                  /\ PageOf(source, page', PerPage) = <<>>
           ELSE ProcessedKeys(store') \ ProcessedKeys(prev) # {} ]_vars

====
